---- MODULE Spec2Model ----
(***************************************************************************)
(* The strategy framework of analysis/analyze_src: three dispatchers       *)
(* (DataInspector, UnivarietAnalyzer, BivarietAnalyzer), each holding one  *)
(* strategy object, and the six concrete strategies they forward to.       *)
(*                                                                         *)
(* A strategy's operation is modelled statement by statement: each         *)
(* statement either emits one externally visible event (a line written to  *)
(* stdout, a pyplot/seaborn call) or raises, and the first statement that  *)
(* raises ends the call (nothing in the sources catches an exception).     *)
(* pandas, seaborn and matplotlib are collaborators: what is modelled of   *)
(* them is whether a call raises and what it was asked to draw or print.   *)
(***************************************************************************)
EXTENDS Integers, Sequences, FiniteSets, TLC

\* ------------------------------------------------------------------ bounds

\* random.choice draws among the first MaxColors entries of the palette.
MaxColors == 2

\* ------------------------------------------------------------ the palette

colors ==
    << "blue", "green", "red", "purple", "orange",
       "pink", "yellow", "cyan", "magenta", "brown",
       "gray", "lime", "navy", "teal", "maroon",
       "olive", "violet", "gold", "silver", "indigo" >>

\* random.choice(colors): any entry of the palette (within the bound); the
\* generator's hidden state is abstracted to a nondeterministic draw.
random_choice == { colors[i] : i \in 1..(IF MaxColors < Len(colors) THEN MaxColors ELSE Len(colors)) }

\* --------------------------------------------------------------- datasets

\* A column of a DataFrame: its name and dtype ("number" or "object").
Col(name, dtype) == [name |-> name, dtype |-> dtype]

age == Col("age", "number")
city == Col("city", "object")

\* The column layouts a caller's DataFrame may have.
Layouts == { <<>>, <<age>>, <<city>>, <<age, city>> }

\* The rows are held by their index labels.
DataFrame == [columns : Layouts, rows : { <<"r0", "r1">> }]

\* Feature names callers pass; "height" is a column of no dataset.
Features == {"age", "city", "height"}

\* References to DataFrame objects: the caller's dataset and another one.
DfIds == {"data", "other"}
\* The datasets callers pass as arguments.
CallerDfs == {"data"}
\* The module-level name df of basic_analysis is unbound unless the
\* environment binds it.
Unbound == "<unbound>"

RECURSIVE SelectCols(_, _)
SelectCols(cols, dtype) ==
    IF cols = <<>> THEN <<>>
    ELSE IF Head(cols).dtype = dtype
         THEN <<Head(cols)>> \o SelectCols(Tail(cols), dtype)
         ELSE SelectCols(Tail(cols), dtype)

ColumnNames(df) == { df.columns[i].name : i \in 1..Len(df.columns) }
HasColumn(df, feature) == feature \in ColumnNames(df)
DtypeOf(df, feature) ==
    IF HasColumn(df, feature)
    THEN (CHOOSE c \in { df.columns[i] : i \in 1..Len(df.columns) } : c.name = feature).dtype
    ELSE "absent"

\* ----------------------------------------------------------------- events

NoError == "none"
KeyError == "KeyError"
CouldNotInterpret == "ValueError: Could not interpret value for axis"
NoObjectsToConcatenate == "ValueError: No objects to concatenate"
NoColumnsToDescribe == "ValueError: Cannot describe a DataFrame without columns"
NotNumeric == "TypeError: Neither the x nor y variable appears to be numeric"
NameError == "NameError: name 'df' is not defined"
AttributeError == "AttributeError"

Ev(call) == [call |-> call, text |-> "", x |-> "", y |-> "", color |-> "",
             cols |-> <<>>, rows |-> <<>>]

\* print(text)
Stdout(text) == [Ev("print") EXCEPT !.text = text]
\* print('*' * 65)
Stars == Stdout("*****")

\* One statement: it emits ev, or raises exc and emits nothing.
Step(ev) == [ev |-> ev, exc |-> NoError]
Raise(exc) == [ev |-> Ev("raise"), exc |-> exc]

\* The statements of a body run in order, up to the first that raises.
RECURSIVE RunFrom(_, _, _)
RunFrom(steps, i, acc) ==
    IF i > Len(steps) THEN [emitted |-> acc, raised |-> NoError]
    ELSE IF steps[i].exc # NoError THEN [emitted |-> acc, raised |-> steps[i].exc]
    ELSE RunFrom(steps, i + 1, Append(acc, steps[i].ev))

\* The outcome of a strategy operation: what it emitted, what it raised and
\* the DataFrame it was given as the call leaves it.
Outcome(steps, df) ==
    LET r == RunFrom(steps, 1, <<>>)
    IN  [emitted |-> r.emitted, raised |-> r.raised, df |-> df]

\* --------------------------------------------------- pandas collaborators

\* df.info(): writes one line per column (dtype, non-null count) to stdout.
df_info(df) == Step([Ev("df.info") EXCEPT !.cols = df.columns, !.rows = df.rows])

\* print(df.describe().T): the numeric columns, or every column when none
\* is numeric; raises on a DataFrame without columns.
df_describe(df) ==
    LET num == SelectCols(df.columns, "number")
    IN  IF df.columns = <<>> THEN Raise(NoColumnsToDescribe)
        ELSE Step([Stdout("describe") EXCEPT
                     !.cols = IF num = <<>> THEN df.columns ELSE num,
                     !.rows = df.rows])

\* print(df.describe(include='object').T): raises when no column is object.
df_describe_object(df) ==
    LET obj == SelectCols(df.columns, "object")
    IN  IF df.columns = <<>> THEN Raise(NoColumnsToDescribe)
        ELSE IF obj = <<>> THEN Raise(NoObjectsToConcatenate)
        ELSE Step([Stdout("describe(include='object')") EXCEPT
                     !.cols = obj, !.rows = df.rows])

\* ------------------------------------------------- inspection strategies

DataTypesInspection_inspect(df) ==
    Outcome(<< Step(Stars),
               Step(Stdout("The Data Types and Non-null Counts of the columns.")),
               Step(Stars),
               df_info(df),
               Step(Stdout("None")),
               Step(Stars) >>, df)

\* As StatisticalSummaryInspection.inspect, had it cleaned the frame in place
\* (df.dropna(inplace=True)) before describing it.
StatisticalSummaryInspection_inspect_inplace(df) ==
    Outcome(<< Step(Stars),
               Step(Stdout("The Statistical Summary Of The Numerical Columns")),
               Step(Stars),
               df_describe(df),
               Step(Stars),
               Step(Stdout("The Statistical Summary Of The Categorical Columns")),
               Step(Stars),
               df_describe_object(df),
               Step(Stars) >>, [df EXCEPT !.rows = <<"r0">>])

StatisticalSummaryInspection_inspect(df) ==
    Outcome(<< Step(Stars),
               Step(Stdout("The Statistical Summary Of The Numerical Columns")),
               Step(Stars),
               df_describe(df),
               Step(Stars),
               Step(Stdout("The Statistical Summary Of The Categorical Columns")),
               Step(Stars),
               df_describe_object(df),
               Step(Stars) >>, df)

\* --------------------------------------------------- chart collaborators

\* sns.histplot(df[feature], kde=True, color=color): df[feature] raises
\* KeyError when the column is absent.
sns_histplot(df, feature, color) ==
    IF ~HasColumn(df, feature) THEN Raise(KeyError)
    ELSE Step([Ev("sns.histplot") EXCEPT !.x = feature, !.color = color])

\* sns.countplot(data=df, x=feature, palette='muted')
sns_countplot(df, feature) ==
    IF ~HasColumn(df, feature) THEN Raise(CouldNotInterpret)
    ELSE Step([Ev("sns.countplot") EXCEPT !.x = feature, !.color = "muted"])

\* sns.scatterplot(data=df, x=feature1, y=feature2, color=color)
sns_scatterplot(df, feature1, feature2, color) ==
    IF ~HasColumn(df, feature1) \/ ~HasColumn(df, feature2) THEN Raise(CouldNotInterpret)
    ELSE Step([Ev("sns.scatterplot") EXCEPT !.x = feature1, !.y = feature2, !.color = color])

\* sns.boxplot(data=df, x=feature1, y=feature2, color=color): the boxes run
\* along whichever axis is numeric; it raises when neither is.
sns_boxplot(df, feature1, feature2, color) ==
    IF ~HasColumn(df, feature1) \/ ~HasColumn(df, feature2) THEN Raise(CouldNotInterpret)
    ELSE IF DtypeOf(df, feature1) = "object" /\ DtypeOf(df, feature2) = "object"
         THEN Raise(NotNumeric)
    ELSE Step([Ev("sns.boxplot") EXCEPT !.x = feature1, !.y = feature2, !.color = color])

plt_figure == Step(Ev("plt.figure"))
plt_title(text) == Step([Ev("plt.title") EXCEPT !.text = text])
plt_xlabel(text) == Step([Ev("plt.xlabel") EXCEPT !.text = text])
plt_ylabel(text) == Step([Ev("plt.ylabel") EXCEPT !.text = text])
plt_xticks(rotation) == Step([Ev("plt.xticks") EXCEPT !.text = rotation])
plt_show == Step(Ev("plt.show"))

\* ------------------------------------------------- univariate strategies

\* As NumericalUnivarietAnalysis.analyze, had it read the column with
\* df.get(feature), which yields None for an absent column and plots nothing.
NumericalUnivarietAnalysis_analyze_get(df, feature, color) ==
    Outcome(<< plt_figure,
               Step([Ev("sns.histplot") EXCEPT
                       !.x = IF HasColumn(df, feature) THEN feature ELSE "None",
                       !.color = color]),
               plt_title("Distribution of " \o feature),
               plt_xlabel(feature),
               plt_ylabel("Frequency"),
               plt_show >>, df)

\* color is the value random.choice(colors) returned in this call.
NumericalUnivarietAnalysis_analyze(df, feature, color) ==
    Outcome(<< plt_figure,
               sns_histplot(df, feature, color),
               plt_title("Distribution of " \o feature),
               plt_xlabel(feature),
               plt_ylabel("Frequency"),
               plt_show >>, df)

\* As CategoricalUnivarietAnalysis.analyze, had it swallowed the plotting
\* error (try: sns.countplot(...) except ValueError: pass) and gone on.
CategoricalUnivarietAnalysis_analyze_swallow(df, feature) ==
    Outcome(<< plt_figure >>
            \o (IF HasColumn(df, feature) THEN << sns_countplot(df, feature) >> ELSE <<>>)
            \o << plt_title("Distribution of " \o feature),
                  plt_xlabel(feature),
                  plt_ylabel("Count"),
                  plt_xticks("rotation = 70") >>
            \o (IF HasColumn(df, feature) THEN << plt_show >> ELSE <<>>), df)

CategoricalUnivarietAnalysis_analyze(df, feature) ==
    Outcome(<< plt_figure,
               sns_countplot(df, feature),
               plt_title("Distribution of " \o feature),
               plt_xlabel(feature),
               plt_ylabel("Count"),
               plt_xticks("rotation = 70"),
               plt_show >>, df)

\* -------------------------------------------------- bivariate strategies

\* As NumericalVsNumericalAnalysis.analyze, had it popped the plotted column
\* off the frame (df.pop(feature1)) to get its values.
NumericalVsNumericalAnalysis_analyze_pop(df, feature1, feature2, color) ==
    Outcome(<< plt_figure,
               sns_scatterplot(df, feature1, feature2, color),
               plt_title(feature1 \o " vs " \o feature2),
               plt_xlabel(feature1),
               plt_ylabel(feature2),
               plt_show >>,
            [df EXCEPT !.columns = SelectSeq(df.columns, LAMBDA c : c.name # feature1)])

NumericalVsNumericalAnalysis_analyze(df, feature1, feature2, color) ==
    Outcome(<< plt_figure,
               sns_scatterplot(df, feature1, feature2, color),
               plt_title(feature1 \o " vs " \o feature2),
               plt_xlabel(feature1),
               plt_ylabel(feature2),
               plt_show >>, df)

\* As NumericalVsCategoricalAnalysis.analyze, had it rejected a first
\* feature that is not numeric before plotting.
NumericalVsCategoricalAnalysis_analyze_checked(df, feature1, feature2, color) ==
    Outcome(<< IF DtypeOf(df, feature1) = "object" THEN Raise(NotNumeric) ELSE plt_figure,
               sns_boxplot(df, feature1, feature2, color),
               plt_title(feature1 \o " vs " \o feature2),
               plt_xlabel(feature1),
               plt_ylabel(feature2),
               plt_xticks("rotation = 45"),
               plt_show >>, df)

NumericalVsCategoricalAnalysis_analyze(df, feature1, feature2, color) ==
    Outcome(<< plt_figure,
               sns_boxplot(df, feature1, feature2, color),
               plt_title(feature1 \o " vs " \o feature2),
               plt_xlabel(feature1),
               plt_ylabel(feature2),
               plt_xticks("rotation = 45"),
               plt_show >>, df)

\* ------------------------------------------------------- strategy objects

InspectionStrategies == {"DataTypesInspection", "StatisticalSummaryInspection"}
UnivarietStrategies == {"NumericalUnivarietAnalysis", "CategoricalUnivarietAnalysis"}
BivarietStrategies == {"NumericalVsNumericalAnalysis", "NumericalVsCategoricalAnalysis"}

\* What a caller may also pass where a strategy is expected: Python checks
\* no annotation.
None == "None"
Nothing == "<nothing>"

\* obj.inspect / obj.analyze resolves only on a strategy of that family.
HasInspect(obj) == obj \in InspectionStrategies
HasAnalyze1(obj) == obj \in UnivarietStrategies
HasAnalyze2(obj) == obj \in BivarietStrategies

\* Dynamic dispatch of strategy.inspect(df).
inspect(obj, df) ==
    IF obj = "DataTypesInspection" THEN DataTypesInspection_inspect(df)
    ELSE StatisticalSummaryInspection_inspect(df)

\* Dynamic dispatch of strategy.analyze(df, feature).
analyze1(obj, df, feature, color) ==
    IF obj = "NumericalUnivarietAnalysis"
    THEN NumericalUnivarietAnalysis_analyze(df, feature, color)
    ELSE CategoricalUnivarietAnalysis_analyze(df, feature)

\* Dynamic dispatch of strategy.analyze(df, feature1, feature2).
analyze2(obj, df, feature1, feature2, color) ==
    IF obj = "NumericalVsNumericalAnalysis"
    THEN NumericalVsNumericalAnalysis_analyze(df, feature1, feature2, color)
    ELSE NumericalVsCategoricalAnalysis_analyze(df, feature1, feature2, color)

\* ------------------------------------------------------------------ state

\* The dispatcher objects a caller may construct, by class.
DataInspector == {"inspector", "inspector2"}
UnivarietAnalyzer == {"univariate"}
BivarietAnalyzer == {"bivariate"}

\* What a caller passes to a dispatcher's constructor or set_strategy.
StrategyArgs(d) ==
    (IF d \in DataInspector THEN InspectionStrategies
     ELSE IF d \in UnivarietAnalyzer THEN UnivarietStrategies
     ELSE BivarietStrategies) \cup {None}

VARIABLES
    strategy,    \* strategy[d]: the _strategy attribute of dispatcher d
    frames,      \* frames[id]: the DataFrame object id refers to
    module_df,   \* what the global name df of basic_analysis is bound to
    frames0,     \* history: the DataFrames as they were at the start
    latest,      \* history: the argument of d's constructor or last set_strategy
    last         \* history: the most recent call, what it emitted and raised

vars == <<strategy, frames, module_df, frames0, latest, last>>

\* The dispatchers that exist, and those of each class.
Dispatchers == DOMAIN strategy
Inspectors == Dispatchers \cap DataInspector
UnivarietAnalyzers == Dispatchers \cap UnivarietAnalyzer
BivarietAnalyzers == Dispatchers \cap BivarietAnalyzer

\* The objects a method can reach.
World == [strategy |-> strategy, frames |-> frames, module_df |-> module_df]

\* What a method call leaves behind: the objects after it, the events it
\* emitted, what it raised, and the strategy operation it invoked (with the
\* arguments that operation received), if any.
Returned(w) ==
    [strategy |-> w.strategy, frames |-> w.frames, emitted |-> <<>>,
     raised |-> NoError, invoked |-> Nothing,
     recv_df |-> "", recv_f1 |-> "", recv_f2 |-> ""]

Raised(w, exc) == [Returned(w) EXCEPT !.raised = exc]

\* obj's operation was called with (df, f1, f2) and ended as out.
Invoked(w, obj, df, f1, f2, out) ==
    [strategy |-> w.strategy, frames |-> [w.frames EXCEPT ![df] = out.df],
     emitted |-> out.emitted, raised |-> out.raised, invoked |-> obj,
     recv_df |-> df, recv_f1 |-> f1, recv_f2 |-> f2]

\* ------------------------------------------------------------ dispatchers

\* As DataInspector.set_strategy, had it assigned the class attribute
\* (DataInspector._strategy = strategy), which every inspector shares.
DataInspector_set_strategy_shared(w, self, arg) ==
    Returned([w EXCEPT !.strategy =
                [d \in DOMAIN w.strategy |->
                    IF d \in DataInspector THEN arg ELSE w.strategy[d]]])

\* self._strategy = strategy
DataInspector_set_strategy(w, self, arg) ==
    Returned([w EXCEPT !.strategy[self] = arg])

\* self._strategy.inspect(df): the parameter (named strategy) is not used;
\* df is looked up as a global of the module after the attribute lookup.
DataInspector_execute_inspection(w, self, arg) ==
    LET cur == w.strategy[self]
    IN  IF ~HasInspect(cur) THEN Raised(w, AttributeError)
        ELSE IF w.module_df = Unbound THEN Raised(w, NameError)
        ELSE Invoked(w, cur, w.module_df, "", "",
                     inspect(cur, w.frames[w.module_df]))

\* As UnivarietAnalyzer.set_strategy, had it assigned a local name
\* (_strategy = strategy) and left the attribute alone.
UnivarietAnalyzer_set_strategy_local(w, self, arg) ==
    Returned(w)

\* self._strategy = strategy
UnivarietAnalyzer_set_strategy(w, self, arg) ==
    Returned([w EXCEPT !.strategy[self] = arg])

\* self._strategy.analyze(df, feature)
UnivarietAnalyzer_execute_analysis(w, self, df, feature, color) ==
    LET cur == w.strategy[self]
    IN  IF ~HasAnalyze1(cur) THEN Raised(w, AttributeError)
        ELSE Invoked(w, cur, df, feature, "",
                     analyze1(cur, w.frames[df], feature, color))

\* self._strategy = strategy
BivarietAnalyzer_set_strategy(w, self, arg) ==
    Returned([w EXCEPT !.strategy[self] = arg])

\* As BivarietAnalyzer.execute_analysis, had it dropped its strategy when
\* the analysis raised (except: self._strategy = None; raise).
BivarietAnalyzer_execute_analysis_reset(w, self, df, feature1, feature2, color) ==
    LET cur == w.strategy[self]
        res == Invoked(w, cur, df, feature1, feature2,
                       analyze2(cur, w.frames[df], feature1, feature2, color))
    IN  IF ~HasAnalyze2(cur) THEN Raised(w, AttributeError)
        ELSE IF res.raised = NoError THEN res
        ELSE [res EXCEPT !.strategy[self] = None]

\* self._strategy.analyze(df, feature1, feature2)
BivarietAnalyzer_execute_analysis(w, self, df, feature1, feature2, color) ==
    LET cur == w.strategy[self]
    IN  IF ~HasAnalyze2(cur) THEN Raised(w, AttributeError)
        ELSE Invoked(w, cur, df, feature1, feature2,
                     analyze2(cur, w.frames[df], feature1, feature2, color))

\* ---------------------------------------------------------------- actions

CallOps == {"execute", "inspect", "analyze"}

\* The call (op on disp with df, f1, f2) ended as res.
Record(op, disp, df, f1, f2, res) ==
    [op |-> op, disp |-> disp, df |-> df, f1 |-> f1, f2 |-> f2,
     invoked |-> res.invoked, recv_df |-> res.recv_df,
     recv_f1 |-> res.recv_f1, recv_f2 |-> res.recv_f2,
     emitted |-> res.emitted, raised |-> res.raised,
     again |-> /\ op \in CallOps
               /\ res.invoked # Nothing
               /\ last.op = op /\ last.disp = disp /\ last.df = df
               /\ last.f1 = f1 /\ last.f2 = f2
               /\ last.invoked = res.invoked]

Apply(res) ==
    /\ strategy' = res.strategy
    /\ frames' = res.frames
    /\ UNCHANGED <<module_df, frames0>>

\* The state once the caller has its datasets and has constructed the
\* dispatchers ds, each with a strategy of its family
\* (__init__: self._strategy = strategy).
Constructed(ds) ==
    /\ strategy \in [ds -> UNION { StrategyArgs(d) : d \in ds }]
    /\ \A d \in ds : strategy[d] \in StrategyArgs(d) \ {None}
    /\ latest = strategy
    /\ frames \in [DfIds -> DataFrame]
    /\ frames["other"].columns = <<age, city>>
    /\ frames0 = frames
    /\ module_df \in {Unbound} \cup DfIds
    /\ last = [op |-> "init", disp |-> "", df |-> "", f1 |-> "", f2 |-> "",
               invoked |-> Nothing, recv_df |-> "", recv_f1 |-> "", recv_f2 |-> "",
               emitted |-> <<>>, raised |-> NoError, again |-> FALSE]

\* d.set_strategy(arg)
SetStrategy(d, arg) ==
    \E res \in { IF d \in Inspectors THEN DataInspector_set_strategy(World, d, arg)
               ELSE IF d \in UnivarietAnalyzers THEN UnivarietAnalyzer_set_strategy(World, d, arg)
               ELSE BivarietAnalyzer_set_strategy(World, d, arg) } :
        /\ Apply(res)
        /\ latest' = [latest EXCEPT ![d] = arg]
        /\ last' = Record("set_strategy", d, "", "", "", res)

\* d.execute_inspection(df) on a DataInspector
ExecuteInspection(d, df) ==
    \E res \in { DataInspector_execute_inspection(World, d, df) } :
        /\ Apply(res)
        /\ last' = Record("execute", d, df, "", "", res)
        /\ UNCHANGED latest

\* d.execute_analysis(df, feature) on a UnivarietAnalyzer
ExecuteUnivariet(d, df, feature, color) ==
    \E res \in { UnivarietAnalyzer_execute_analysis(World, d, df, feature, color) } :
        /\ Apply(res)
        /\ last' = Record("execute", d, df, feature, "", res)
        /\ UNCHANGED latest

\* d.execute_analysis(df, feature1, feature2) on a BivarietAnalyzer
ExecuteBivariet(d, df, feature1, feature2, color) ==
    \E res \in { BivarietAnalyzer_execute_analysis(World, d, df, feature1, feature2, color) } :
        /\ Apply(res)
        /\ last' = Record("execute", d, df, feature1, feature2, res)
        /\ UNCHANGED latest

\* obj.inspect(df), called on the strategy itself
Inspect(obj, df) ==
    \E res \in { Invoked(World, obj, df, "", "", inspect(obj, frames[df])) } :
        /\ Apply(res)
        /\ last' = Record("inspect", "", df, "", "", res)
        /\ UNCHANGED latest

\* obj.analyze(df, feature), called on the strategy itself
AnalyzeUnivariet(obj, df, feature, color) ==
    \E res \in { Invoked(World, obj, df, feature, "",
                       analyze1(obj, frames[df], feature, color)) } :
        /\ Apply(res)
        /\ last' = Record("analyze", "", df, feature, "", res)
        /\ UNCHANGED latest

\* obj.analyze(df, feature1, feature2), called on the strategy itself
AnalyzeBivariet(obj, df, feature1, feature2, color) ==
    \E res \in { Invoked(World, obj, df, feature1, feature2,
                       analyze2(obj, frames[df], feature1, feature2, color)) } :
        /\ Apply(res)
        /\ last' = Record("analyze", "", df, feature1, feature2, res)
        /\ UNCHANGED latest

Next ==
    \/ \E d \in Dispatchers : \E arg \in StrategyArgs(d) : SetStrategy(d, arg)
    \/ \E d \in Inspectors : \E df \in CallerDfs : ExecuteInspection(d, df)
    \/ \E d \in UnivarietAnalyzers : \E df \in CallerDfs : \E f \in Features :
          \E color \in random_choice : ExecuteUnivariet(d, df, f, color)
    \/ \E d \in BivarietAnalyzers : \E df \in CallerDfs : \E f1, f2 \in Features :
          \E color \in random_choice : ExecuteBivariet(d, df, f1, f2, color)
    \/ \E obj \in InspectionStrategies : \E df \in CallerDfs : Inspect(obj, df)
    \/ \E obj \in UnivarietStrategies : \E df \in CallerDfs : \E f \in Features :
          \E color \in random_choice : AnalyzeUnivariet(obj, df, f, color)
    \/ \E obj \in BivarietStrategies : \E df \in CallerDfs : \E f1, f2 \in Features :
          \E color \in random_choice : AnalyzeBivariet(obj, df, f1, f2, color)

\* One dispatcher of each class.
Init == Constructed({"inspector", "univariate", "bivariate"})

Spec == Init /\ [][Next]_vars

\* The dispatchers alone, with two of one class.
InitDispatch == Constructed({"inspector", "inspector2", "univariate", "bivariate"})

NextDispatch ==
    \/ \E d \in Dispatchers : \E arg \in StrategyArgs(d) : SetStrategy(d, arg)
    \/ \E d \in Inspectors : \E df \in CallerDfs : ExecuteInspection(d, df)
    \/ \E d \in UnivarietAnalyzers : \E df \in CallerDfs : \E f \in Features :
          \E color \in random_choice : ExecuteUnivariet(d, df, f, color)
    \/ \E d \in BivarietAnalyzers : \E df \in CallerDfs : \E f1, f2 \in Features :
          \E color \in random_choice : ExecuteBivariet(d, df, f1, f2, color)

SpecDispatch == InitDispatch /\ [][NextDispatch]_vars

\* ============================================================= properties

\* The strategies a dispatcher is meant to hold.
FamilyOf(d) == StrategyArgs(d) \ {None}

ChartStrategies == UnivarietStrategies \cup BivarietStrategies

\* The call of each event, in order.
Calls(events) == [i \in 1..Len(events) |-> events[i].call]
\* The events with the drawn colour left out.
Uncolored(events) == [i \in 1..Len(events) |-> [events[i] EXCEPT !.color = ""]]
EmittedCalls == { last.emitted[i].call : i \in 1..Len(last.emitted) }

\* ---- C1
\* C1: an execute call on a dispatcher whose latest constructor/set_strategy
\* argument is a strategy invokes exactly that strategy. (Refuted for
\* DataInspector: execute_inspection raises NameError before it invokes
\* anything when the module has no global df.)
C1_ExecuteInvokesLatestStrategy ==
    (last.op = "execute" /\ latest[last.disp] \in FamilyOf(last.disp))
        => last.invoked = latest[last.disp]

\* ---- C2
\* C2: execute forwards its arguments unchanged: the current strategy's
\* operation is invoked and receives exactly the dataset and the feature
\* names the caller passed to execute. (Refuted for
\* DataInspector.execute_inspection, which passes the module's global df.)
C2_ExecuteForwardsArguments ==
    (last.op = "execute" /\ strategy[last.disp] \in FamilyOf(last.disp))
        => /\ last.invoked # Nothing
           /\ last.recv_df = last.df
           /\ last.recv_f1 = last.f1
           /\ last.recv_f2 = last.f2

\* ---- C3
\* C3 as stated: in every reachable state every dispatcher holds a valid
\* strategy of its family, never null, whatever was passed to set_strategy.
C3_AlwaysHoldsValidStrategy ==
    \A d \in Dispatchers : strategy[d] # None /\ strategy[d] \in FamilyOf(d)

\* C3 amended: a dispatcher always holds exactly the object most recently
\* passed to its constructor or set_strategy, stored without validation: a
\* valid strategy when that argument was one, null when it was None.
C3_HoldsLatestArgument ==
    \A d \in Dispatchers :
        /\ strategy[d] = latest[d]
        /\ (latest[d] \in FamilyOf(d) => strategy[d] # None /\ strategy[d] \in FamilyOf(d))

\* An execute was attempted on a dispatcher that set_strategy(None) left null.
C3_Witness ==
    /\ last.op = "execute"
    /\ strategy[last.disp] = None
    /\ last.raised = AttributeError
    /\ \E d \in Dispatchers : d # last.disp /\ strategy[d] \in FamilyOf(d)

\* ---- C9
\* C9: a set_strategy step changes only the _strategy of the dispatcher it is
\* called on (to its argument): it emits nothing, invokes no strategy
\* operation, raises nothing, and leaves the datasets, the module's df and
\* every other dispatcher's strategy unchanged.
C9_SetStrategyChangesOnlyItsDispatcher ==
    [][ last'.op = "set_strategy" =>
          /\ strategy'[last'.disp] = latest'[last'.disp]
          /\ \A d \in Dispatchers \ {last'.disp} : strategy'[d] = strategy[d]
          /\ DOMAIN strategy' = DOMAIN strategy
          /\ frames' = frames
          /\ module_df' = module_df
          /\ last'.emitted = <<>>
          /\ last'.invoked = Nothing
          /\ last'.raised = NoError ]_vars

\* set_strategy acted on one inspector while the other inspector and a
\* dispatcher of another class hold something else.
C9_Witness ==
    /\ last.op = "set_strategy"
    /\ last.disp = "inspector"
    /\ strategy["inspector"] = "StatisticalSummaryInspection"
    /\ strategy["inspector2"] = "DataTypesInspection"
    /\ strategy["univariate"] = "CategoricalUnivarietAnalysis"

\* ---- C10
\* C10: an execute step, whether it returns or raises, leaves every
\* dispatcher's current strategy as it was.
C10_ExecuteKeepsStrategy ==
    [][ last'.op = "execute" => strategy' = strategy ]_vars

\* An execute that raised inside the strategy was followed by the same
\* execute on the same dispatcher, which reached the same strategy again.
C10_Witness ==
    /\ last.op = "execute"
    /\ last.again
    /\ last.raised = CouldNotInterpret
    /\ last.invoked = strategy[last.disp]

\* ---- C4
\* The call named a feature that is no column of the dataset it was given.
MissingFeature ==
    \/ ~HasColumn(frames0[last.df], last.f1)
    \/ last.invoked \in BivarietStrategies /\ ~HasColumn(frames0[last.df], last.f2)

\* C4: an analyze call of a univariate or bivariate strategy (direct or via
\* execute_analysis) with a feature absent from the dataset raises a
\* missing-feature error, draws and shows nothing, and leaves the dataset
\* as it was.
C4_MissingFeatureRaises ==
    (last.op \in CallOps /\ last.invoked \in ChartStrategies /\ MissingFeature)
        => /\ last.raised \in {KeyError, CouldNotInterpret}
           /\ EmittedCalls \subseteq {"plt.figure"}
           /\ frames[last.df] = frames0[last.df]

\* The box-plot strategy was reached through the dispatcher with a present
\* first feature and an absent second one.
C4_Witness ==
    /\ last.op = "execute"
    /\ last.invoked = "NumericalVsCategoricalAnalysis"
    /\ last.f1 = "age" /\ last.f2 = "height"
    /\ HasColumn(frames0[last.df], "age")
    /\ last.raised = CouldNotInterpret

\* ---- C5
\* C5: no operation changes a dataset: every DataFrame has the columns,
\* dtypes and rows it started with.
C5_DatasetsNeverChange ==
    frames = frames0

\* A statistical summary was printed in full through the dispatcher.
C5_Witness ==
    /\ last.op = "execute"
    /\ last.invoked = "StatisticalSummaryInspection"
    /\ last.raised = NoError
    /\ Len(last.emitted) = 9

\* ---- C6
\* C6 as stated: a call that ends in an error has emitted nothing.
C6_ErrorEmitsNothing ==
    (last.op \in CallOps /\ last.raised # NoError) => last.emitted = <<>>

\* The strategy ran to its last statement: the chart was shown, or the
\* closing line followed the last report.
Completed ==
    /\ last.emitted # <<>>
    /\ LET n == Len(last.emitted)
       IN  IF last.invoked \in ChartStrategies
           THEN last.emitted[n].call = "plt.show"
           ELSE /\ n >= 2
                /\ last.emitted[n] = Stars
                /\ last.emitted[n - 1].text \in {"None", "describe(include='object')"}

\* C6 amended: a call fails only before its last step, but not before its
\* first: a strategy operation that raises has already created its figure or
\* printed its header (and never shows the chart or prints the closing
\* report), one that returns has emitted everything, and only an execute
\* that raises before reaching a strategy emits nothing.
\* StatisticalSummaryInspection.inspect on a frame without object columns
\* raises after printing the numeric summary and the second header (7
\* events), on a frame without any column after the first header (3 events);
\* on a frame with object columns and no numeric one it completes.
C6_FailsMidwayNeverAfterLastStep ==
    last.op \in CallOps =>
        /\ last.invoked = Nothing => (last.raised # NoError /\ last.emitted = <<>>)
        /\ last.invoked # Nothing =>
              /\ last.emitted # <<>>
              /\ (last.raised = NoError) <=> Completed
        /\ last.invoked = "StatisticalSummaryInspection" =>
              LET df == frames0[last.recv_df]
              IN  IF df.columns = <<>>
                  THEN last.raised = NoColumnsToDescribe /\ Len(last.emitted) = 3
                  ELSE IF SelectCols(df.columns, "object") = <<>>
                  THEN last.raised = NoObjectsToConcatenate /\ Len(last.emitted) = 7
                  ELSE last.raised = NoError /\ Len(last.emitted) = 9

\* The summary of a frame without object columns stopped after seven lines.
C6_Witness ==
    /\ last.invoked = "StatisticalSummaryInspection"
    /\ last.raised = NoObjectsToConcatenate
    /\ Len(last.emitted) = 7
    /\ last.emitted[4].cols = <<age>>

\* ---- C7
\* C7 as stated: a call repeated with identical inputs emits exactly what
\* the call before it emitted.
C7_RepeatEmitsIdenticalContent ==
    [][ last'.again => (last'.emitted = last.emitted /\ last'.raised = last.raised) ]_vars

\* C7 amended: a call repeated with identical inputs ends as the call before
\* it did and emits the same events, except for the colour, which
\* random.choice draws anew at each call of the three strategies that use it.
C7_RepeatEmitsSameUpToColor ==
    [][ last'.again =>
          /\ Uncolored(last'.emitted) = Uncolored(last.emitted)
          /\ last'.raised = last.raised ]_vars

\* The scatter plot was drawn twice in a row from identical inputs.
C7_Witness ==
    /\ last.again
    /\ last.op = "analyze"
    /\ last.invoked = "NumericalVsNumericalAnalysis"
    /\ last.raised = NoError

\* ---- C8
\* The box-plot strategy was given a categorical column first and a numeric
\* column second.
Reversed ==
    /\ last.op \in CallOps
    /\ last.invoked = "NumericalVsCategoricalAnalysis"
    /\ DtypeOf(frames0[last.df], last.f1) = "object"
    /\ DtypeOf(frames0[last.df], last.f2) = "number"

\* What the same strategy does with the numeric column first.
NumericFirst ==
    NumericalVsCategoricalAnalysis_analyze(frames0[last.df], last.f2, last.f1, "")

\* C8 as stated: the reversed call is rejected, or takes other steps than
\* the numeric-first call.
C8_ReversedRejectedOrFallback ==
    Reversed => \/ last.raised # NoError
                \/ Calls(last.emitted) # Calls(NumericFirst.emitted)

\* C8 amended: the reversed call is neither rejected nor treated apart: it
\* runs the same statements as the numeric-first call and returns, with
\* feature1 (the categorical column) on the x axis and feature2 on the y axis.
C8_ReversedHandledAlike ==
    Reversed => /\ last.raised = NoError
                /\ NumericFirst.raised = NoError
                /\ Calls(last.emitted) = Calls(NumericFirst.emitted)
                /\ last.emitted[2].call = "sns.boxplot"
                /\ last.emitted[2].x = last.f1
                /\ last.emitted[2].y = last.f2

\* The strategy itself was called with (city, age).
C8_Witness ==
    /\ Reversed
    /\ last.op = "analyze"
    /\ last.f1 = "city" /\ last.f2 = "age"
    /\ last.raised = NoError

====
